---- MODULE Spec2Model ----
(***************************************************************************)
(* The out-of-office form (OofForm.tsx), its user-search typeahead         *)
(* (UserSearch.tsx) and the debounce hook that is built on                 *)
(* (useDebounce.ts).                                                       *)
(*                                                                         *)
(* Six specifications: Spec is the typeahead under its two parents'        *)
(* events (checkbox, time); SpecDirectory is Spec against a directory that *)
(* may answer with more records than $top; SpecDebounce is the hook on its *)
(* own; SpecForm is the form with the typeahead seen through onUserSelect  *)
(* only; SpecApp runs form and typeahead side by side from a small set of  *)
(* inputs; SpecEntrypoint is the container's entrypoint.sh.                *)
(*                                                                         *)
(* One step of the model is one event of the browser's event loop, run to  *)
(* completion: the handler, the re-render it causes and the effects of     *)
(* that render.  Time is counted in ticks.                                 *)
(*                                                                         *)
(* Modelling decisions:                                                    *)
(*  - a timer runs at the tick it is due: Tick is disabled while a timer   *)
(*    is due, but user events may still come first and cancel it;          *)
(*  - instance and accounts (useMsal) keep their identity, so the search   *)
(*    effect re-runs only when debouncedSearchTerm or selectedUser change; *)
(*  - fetch and graphResponse.json() are one await: nothing of the         *)
(*    component is read or written between them;                           *)
(*  - React drops state updates of an unmounted component, so the lookups  *)
(*    of a torn-down widget are not followed further;                      *)
(*  - handleSubmit is called whatever the fields hold (the browser's       *)
(*    check of the required attribute is not relied on); sub holds what    *)
(*    its closure captured and the call it awaits;                         *)
(*  - sinceChange, pubCount, burst, afterSelect and calls are history      *)
(*    variables: no action reads them except to update them.               *)
(***************************************************************************)
EXTENDS Integers, Sequences, FiniteSets, TLC

\* ---------------------------------------------------------------- bounds
MaxLen == 3          \* longest text the user types
MaxDelay == 2        \* largest delay (in ticks) the hook is checked with
DelayTicks == 2      \* the widget's 400 ms delay, in ticks
MaxInflight == 2     \* lookups of one widget awaiting a response together
MaxHits == 2         \* longest list the directory returns
MaxEvents == 1       \* most events a calendar view returns
MaxTokens == 2       \* longest runtime-env.js, in tokens
MaxStarts == 2       \* container starts that are counted

\* ------------------------------------------------------------- constants
\* if (debouncedSearchTerm.length < 2)
MinQueryLen == 2

\* setError('Failed to search users. Please try again.')
GenericError == "Failed to search users. Please try again."

\* What the awaited calls of searchUsers throw: acquireTokenSilent's error,
\* fetch's TypeError, the Error of line 132, json()'s SyntaxError.
AuthErrors == {"interaction_required"}
FetchErrors == {"Failed to fetch", "Graph API error: Forbidden",
                "Unexpected token < in JSON"}

Word == <<"j", "o", "h", "n", "n", "y">>

\* The values of the text input: the prefixes of a word being typed.
Texts == {SubSeq(Word, 1, n) : n \in 0..MaxLen}

\* selectedUser: GraphUser | null
NoUser == [id |-> 0, displayName |-> <<>>, mail |-> "", userPrincipalName |-> ""]

\* Directory records (interface GraphUser). Every user has a principal name;
\* mail is "" for a user without a mailbox address (null in the response).
Users == {[id |-> 1, displayName |-> <<"j", "o">>,
           mail |-> "jo@contoso.com", userPrincipalName |-> "jo@contoso.com"],
          [id |-> 2, displayName |-> <<"j">>,
           mail |-> "", userPrincipalName |-> "j@contoso.onmicrosoft.com"]}

Range(s) == {s[i] : i \in DOMAIN s}

\* data.value || [] : what a successful directory request yields.
Responses ==
    {s \in UNION {[1..n -> Users] : n \in 0..MaxHits} :
        \A i, j \in DOMAIN s : i # j => s[i].id # s[j].id}

\* &$top=10 : the page size the request asks the directory for.
Top == 10

\* An answer of the directory that holds more records than the request asked
\* for: the cap is a parameter of the request, the response is taken as it is.
Overfull ==
    [k \in 1..(Top + 1) |->
        [id |-> k, displayName |-> <<"j", "o">>,
         mail |-> "jo@contoso.com", userPrincipalName |-> "jo@contoso.com"]]

RemoveAt(s, i) == SubSeq(s, 1, i - 1) \o SubSeq(s, i + 1, Len(s))

Min(a, b) == IF a < b THEN a ELSE b

VARIABLES
    mounted,              \* the UserSearch instance is rendered
    searchTerm,           \* useState('') : the text input, the hook's value
    debouncedSearchTerm,  \* the hook's debouncedValue
    delay,                \* the hook's delay, in ticks
    timers,               \* pending setTimeout handlers of the hook
    results,              \* useState<GraphUser[]>([])
    isSearching,          \* useState(false)
    error,                \* useState('')
    showDropdown,         \* useState(false)
    selectedUser,         \* prop, owned by OofForm
    inflight,             \* searchUsers calls awaiting, in dispatch order
    sinceChange,          \* history: ticks since the input last changed
    pubCount,             \* history: timer callbacks run since that change
    burst,                \* history: changes in a row, each sooner than delay after the last
    afterSelect,          \* history: the last event was handleUserClick
    startTime,            \* OofForm: useState(''), 0 is the empty value
    endTime,              \* useState('')
    internalMessage,      \* useState('')
    externalMessage,      \* useState('')
    blockCalendar,        \* useState(false)
    declineNewInvites,    \* useState(false)
    declineMeetings,      \* useState(false)
    isSubmitting,         \* useState(false)
    submitStatus,         \* useState('idle')
    errorMessage,         \* useState('')
    sub,                  \* the handleSubmit call that is awaiting, its closure
    calls,                \* history: the remote calls of the submission that is
                          \* awaiting or has just ended
    template,             \* entrypoint.sh: the file $TEMPLATE, NoFile if absent
    target,               \* the file $TARGET, which nginx serves
    env,                  \* the environment of the latest container start
    starts,               \* history: container starts so far, up to MaxStarts
    built                 \* history: runtime-env.js as the image was built

hookVars == <<searchTerm, debouncedSearchTerm, delay, timers, sinceChange, pubCount, burst>>
widgetVars == <<results, isSearching, error, showDropdown, inflight>>
fieldVars == <<startTime, endTime, internalMessage, externalMessage,
               blockCalendar, declineNewInvites, declineMeetings>>
uiVars == <<isSubmitting, submitStatus, errorMessage>>
formVars == <<fieldVars, uiVars, sub, calls>>
containerVars == <<template, target, env, starts, built>>
outerVars == <<formVars, containerVars>>
vars == <<mounted, searchTerm, debouncedSearchTerm, delay, timers, results,
          isSearching, error, showDropdown, selectedUser, inflight,
          sinceChange, pubCount, burst, afterSelect, formVars, containerVars>>

\* ------------------------------------------------------------ useDebounce
\* Mutant: the cleanup returns without clearing the timer.
DebounceCleanupLeak(ts) == ts

\* return () => { clearTimeout(handler); }
DebounceCleanup(ts) == {}

\* Mutant: the timer is set without the delay.
DebounceScheduleNoDelay(ts, v, d) == ts \cup {[val |-> v, left |-> 0]}

\* Mutant: the effect sets no timer.
DebounceScheduleDropped(ts, v, d) == ts

\* const handler = setTimeout(() => { setDebouncedValue(value); }, delay)
DebounceSchedule(ts, v, d) == ts \cup {[val |-> v, left |-> d]}

\* Mutant: the effect returns no cleanup, so a new timer joins the old one.
DebounceEffectNoCleanup(ts, v, d) == DebounceSchedule(ts, v, d)

\* Mutant: a value equal to the settled one is not scheduled again.
DebounceEffectLookBack(ts, v, d) ==
    IF v = debouncedSearchTerm
    THEN DebounceCleanup(ts)
    ELSE DebounceSchedule(DebounceCleanup(ts), v, d)

\* The effect on [value, delay]: the previous run's cleanup, then its body.
DebounceEffect(ts, v, d) == DebounceSchedule(DebounceCleanup(ts), v, d)

\* The hook's part of a render in which the input becomes v.
HookRender(v) ==
    IF v # searchTerm
    THEN /\ timers' = DebounceEffect(timers, v, delay)
         /\ sinceChange' = 0
         /\ pubCount' = 0
         /\ burst' = IF sinceChange < delay THEN Min(burst + 1, 2) ELSE 1
    ELSE UNCHANGED <<timers, sinceChange, pubCount, burst>>

\* -------------------------------------------------------------- UserSearch
\* The component's own state, as the setters of one event see it.
W == [results |-> results, isSearching |-> isSearching, error |-> error,
      showDropdown |-> showDropdown, inflight |-> inflight]

Apply(st) ==
    /\ results' = st.results
    /\ isSearching' = st.isSearching
    /\ error' = st.error
    /\ showDropdown' = st.showDropdown
    /\ inflight' = st.inflight

\* Mutant: searchUsers without the minimum-length guard.
SearchUsersNoMinLength(sel, term, st) ==
    IF sel # NoUser THEN st
    ELSE [st EXCEPT !.isSearching = TRUE, !.error = "",
                    !.inflight = Append(@, [q |-> term, stage |-> "token"])]

\* Mutant: searchUsers without the selectedUser guard.
SearchUsersIgnoringSelection(sel, term, st) ==
    IF Len(term) < MinQueryLen
    THEN [st EXCEPT !.results = <<>>, !.showDropdown = FALSE]
    ELSE [st EXCEPT !.isSearching = TRUE, !.error = "",
                    !.inflight = Append(@, [q |-> term, stage |-> "token"])]

\* Mutant: searchUsers sends the request without asking for a token.
SearchUsersWithoutToken(sel, term, st) ==
    IF sel # NoUser THEN st
    ELSE IF Len(term) < MinQueryLen
    THEN [st EXCEPT !.results = <<>>, !.showDropdown = FALSE]
    ELSE [st EXCEPT !.isSearching = TRUE, !.error = "",
                    !.inflight = Append(@, [q |-> term, stage |-> "fetch"])]

\* searchUsers up to its first await.
SearchUsers(sel, term, st) ==
    IF sel # NoUser THEN st
    ELSE IF Len(term) < MinQueryLen
    THEN [st EXCEPT !.results = <<>>, !.showDropdown = FALSE]
    ELSE [st EXCEPT !.isSearching = TRUE, !.error = "",
                    !.inflight = Append(@, [q |-> term, stage |-> "token"])]

\* Mutant: the catch shows the caught error's own message.
LookupFailedRaw(st, err) ==
    [st EXCEPT !.error = err, !.results = <<>>, !.isSearching = FALSE]

\* catch (err) + finally: err is logged to the console only.
LookupFailed(st, err) ==
    [st EXCEPT !.error = GenericError, !.results = <<>>, !.isSearching = FALSE]

\* Mutant: an empty answer leaves the list that is shown.
LookupSucceededKeepsOnEmpty(st, data) ==
    [st EXCEPT !.results = IF data = <<>> THEN @ ELSE data,
               !.showDropdown = TRUE, !.isSearching = FALSE]

\* setResults(data.value || []); setShowDropdown(true); finally
LookupSucceeded(st, data) ==
    [st EXCEPT !.results = data, !.showDropdown = TRUE, !.isSearching = FALSE]

\* ------------------------------------------------------------ entrypoint.sh
\* envsubst's SHELL-FORMAT argument: the variables it may substitute.
ShellFormat == {"VITE_AZURE_CLIENT_ID", "VITE_AZURE_TENANT_ID", "VITE_REDIRECT_URI"}

\* Variables of a container's environment; HOSTNAME stands for all others.
EnvNames == ShellFormat \cup {"HOSTNAME"}

\* A variable's value; "" also stands for a variable that is not set.
EnvValues == {"", "a", "b"}
Envs == {e \in [EnvNames -> EnvValues \cup {"h"}] :
            e["HOSTNAME"] = "h" /\ \A n \in ShellFormat : e[n] \in EnvValues}

\* A file's text is a sequence of tokens: plain text, or a reference ${s}.
Tokens == {[var |-> FALSE, s |-> "x"]} \cup {[var |-> TRUE, s |-> n] : n \in EnvNames}
Templates == UNION {[1..n -> Tokens] : n \in 0..MaxTokens}

NoFile == [exists |-> FALSE, text |-> <<>>]
File(text) == [exists |-> TRUE, text |-> text]

\* envsubst '$VITE_AZURE_CLIENT_ID $VITE_AZURE_TENANT_ID $VITE_REDIRECT_URI':
\* the listed references become the variables' values, all else is copied.
Envsubst(text, e) ==
    [k \in DOMAIN text |->
        IF text[k].var /\ text[k].s \in ShellFormat
        THEN [var |-> FALSE, s |-> e[text[k].s]]
        ELSE text[k]]

\* Mutant: envsubst rewrites $TARGET from $TARGET itself.
EntrypointInPlace(fs, e) ==
    IF fs.template.exists
    THEN [fs EXCEPT !.target = File(Envsubst(fs.target.text, e))]
    ELSE fs

\* if [ -f "$TEMPLATE" ]; then envsubst ... < "$TEMPLATE" > "$TARGET"; fi
Entrypoint(fs, e) ==
    IF fs.template.exists
    THEN [fs EXCEPT !.target = File(Envsubst(fs.template.text, e))]
    ELSE fs

\* The container the page is served from in the specifications of the page.
ContainerUp ==
    /\ built = <<>>
    /\ template = File(<<>>)
    /\ target = File(<<>>)
    /\ env = CHOOSE e \in Envs : \A n \in ShellFormat : e[n] = "a"
    /\ starts = 1

\* ----------------------------------------------------------------- OofForm
\* datetime-local values: 0 is '', and two moments, 1 before 2.
Times == {0, 1, 2}

\* Text of the two reply messages; " " stands for any white space.
Messages == {<<>>, <<" ">>, <<"a">>}

\* String.prototype.trim
RECURSIVE Trim(_)
Trim(m) ==
    IF m = <<>> THEN m
    ELSE IF Head(m) = " " THEN Trim(Tail(m))
    ELSE IF m[Len(m)] = " " THEN Trim(SubSeq(m, 1, Len(m) - 1))
    ELSE m

\* The form's fields as one render of OofForm sees them; enableForwarding is
\* what renders the UserSearch.
F == [startTime |-> startTime, endTime |-> endTime,
      internalMessage |-> internalMessage, externalMessage |-> externalMessage,
      enableForwarding |-> mounted, selectedUser |-> selectedUser,
      blockCalendar |-> blockCalendar, declineNewInvites |-> declineNewInvites,
      declineMeetings |-> declineMeetings]

\* Mutant: validateForm compares the times with > and lets equal times pass.
ValidateFormEqualTimes(f) ==
    IF f.startTime = 0 \/ f.endTime = 0
    THEN "Please select both start and end times."
    ELSE IF f.startTime > f.endTime
    THEN "End time must be after start time."
    ELSE IF Trim(f.internalMessage) = <<>>
    THEN "Please provide an internal message."
    ELSE IF Trim(f.externalMessage) = <<>>
    THEN "Please provide an external message."
    ELSE IF f.enableForwarding /\ f.selectedUser = NoUser
    THEN "Please select a user to forward emails to."
    ELSE ""

\* validateForm: the message it sets, "" when it returns true.
ValidateForm(f) ==
    IF f.startTime = 0 \/ f.endTime = 0
    THEN "Please select both start and end times."
    ELSE IF f.startTime >= f.endTime
    THEN "End time must be after start time."
    ELSE IF Trim(f.internalMessage) = <<>>
    THEN "Please provide an internal message."
    ELSE IF Trim(f.externalMessage) = <<>>
    THEN "Please provide an external message."
    ELSE IF f.enableForwarding /\ f.selectedUser = NoUser
    THEN "Please select a user to forward emails to."
    ELSE ""

\* The awaited calls of handleSubmit, in program order.
Steps == <<"acquireTokenSilent", "patchMailboxSettings", "postBlockEvent",
           "postDeclineRule", "getCalendarView", "postDecline",
           "postForwardingRule", "postWebhook">>

StepIndex(step) == CHOOSE k \in DOMAIN Steps : Steps[k] = step

\* Mutant: the calls are issued whatever the checkboxes say.
StepEnabledAlways(step, f) == step # "postDecline"

\* The if around each call; the decline calls hang on the calendar view.
StepEnabled(step, f) ==
    CASE step = "postBlockEvent" -> f.blockCalendar
      [] step = "postDeclineRule" -> f.declineNewInvites
      [] step = "getCalendarView" -> f.declineMeetings
      [] step = "postDecline" -> FALSE
      [] step = "postForwardingRule" -> f.enableForwarding /\ f.selectedUser # NoUser
      [] OTHER -> TRUE

RECURSIVE FirstEnabled(_, _)
FirstEnabled(k, f) ==
    IF k > Len(Steps) THEN "done"
    ELSE IF StepEnabled(Steps[k], f) THEN Steps[k]
    ELSE FirstEnabled(k + 1, f)

\* The call handleSubmit issues next once the awaited one has returned.
NextStep(s) ==
    IF s.pc \in {"getCalendarView", "postDecline"} /\ s.events # <<>>
    THEN "postDecline"
    ELSE FirstEnabled(StepIndex(s.pc) + 1, s.f)

\* events.value of the calendar view
EventTypes == {"singleInstance", "occurrence", "seriesMaster"}
CalendarViews == UNION {[1..n -> EventTypes] : n \in 0..MaxEvents}

\* for (const event of events.value) if (event.type === ...)
Declinable(evs) ==
    SelectSeq(evs, LAMBDA e : e \in {"singleInstance", "occurrence"})

\* ruleResponse.id; 0 stands for the null that ruleId starts with.
RuleIds == {1, 2}

\* a || b on strings
Or(a, b) == IF a # "" THEN a ELSE b

\* Mutant: the rule is posted enabled.
ForwardingRuleEnabled(f) ==
    [isEnabled |-> TRUE,
     name |-> f.selectedUser.displayName,
     address |-> Or(f.selectedUser.mail, f.selectedUser.userPrincipalName)]

\* const forwardingRule = {...}: its isEnabled and its forwardTo entry
ForwardingRule(f) ==
    [isEnabled |-> FALSE,
     name |-> f.selectedUser.displayName,
     address |-> Or(f.selectedUser.mail, f.selectedUser.userPrincipalName)]

\* Mutant: the webhook's data are read from the form as it is when the
\* webhook is posted, not from the render that was submitted.
PowerAutomateDataLive(s) ==
    [ruleId |-> s.ruleId,
     forwardToEmail |->
         IF mounted /\ selectedUser # NoUser
         THEN {Or(selectedUser.mail, selectedUser.userPrincipalName)}
         ELSE {},
     forwardToName |->
         IF mounted /\ selectedUser # NoUser
         THEN {selectedUser.displayName}
         ELSE {}]

\* const powerAutomateData = {...}: the three fields about forwarding; a
\* nullable string is the empty set when null and {text} otherwise.
PowerAutomateData(s) ==
    [ruleId |-> s.ruleId,
     forwardToEmail |->
         IF s.f.enableForwarding /\ s.f.selectedUser # NoUser
         THEN {Or(s.f.selectedUser.mail, s.f.selectedUser.userPrincipalName)}
         ELSE {},
     forwardToName |->
         IF s.f.enableForwarding /\ s.f.selectedUser # NoUser
         THEN {s.f.selectedUser.displayName}
         ELSE {}]

\* handleSubmit issues the call step: the bodies of the forwarding rule and
\* of the webhook are built from its locals right before they are posted.
Issue(s, step) ==
    [s EXCEPT !.pc = step,
              !.forwardingRule =
                  IF step = "postForwardingRule"
                  THEN Append(@, ForwardingRule(s.f)) ELSE @,
              !.powerAutomateData =
                  IF step = "postWebhook"
                  THEN Append(@, PowerAutomateData(s)) ELSE @]

\* What an awaited call throws: an Error with its message, or (a GraphError
\* of a client library that does not derive it from Error) another object.
ThrownBy(step) ==
    CASE step = "acquireTokenSilent" ->
             {[isError |-> TRUE, message |-> "interaction_required"]}
      [] step = "postWebhook" ->
             {[isError |-> TRUE, message |-> "Failed to fetch"],
              [isError |-> TRUE, message |-> "Power Automate webhook failed: 500"]}
      [] OTHER ->
             {[isError |-> TRUE, message |-> "Access is denied."],
              [isError |-> FALSE, message |-> "Access is denied."]}

\* The message of the catch's else branch.
GenericSubmitError == "Failed to set automatic replies. Please try again."

\* catch (error): the message shown
CatchMessage(err) ==
    IF err.isError
    THEN "Failed to set automatic replies: " \o err.message
    ELSE GenericSubmitError

InitialFields ==
    [startTime |-> 0, endTime |-> 0, internalMessage |-> <<>>,
     externalMessage |-> <<>>, enableForwarding |-> FALSE,
     selectedUser |-> NoUser, blockCalendar |-> FALSE,
     declineNewInvites |-> FALSE, declineMeetings |-> FALSE]

NoSubmission ==
    [pc |-> "none", f |-> InitialFields, events |-> <<>>, ruleId |-> 0,
     forwardingRule |-> <<>>, powerAutomateData |-> <<>>]

\* The closure of a handleSubmit call on the fields f at its first await.
Submission(f) == [NoSubmission EXCEPT !.pc = Steps[1], !.f = f]

InitialForm ==
    /\ startTime = 0
    /\ endTime = 0
    /\ internalMessage = <<>>
    /\ externalMessage = <<>>
    /\ blockCalendar = FALSE
    /\ declineNewInvites = FALSE
    /\ declineMeetings = FALSE
    /\ isSubmitting = FALSE
    /\ submitStatus = "idle"
    /\ errorMessage = ""
    /\ sub = NoSubmission
    /\ calls = <<>>

InitialWidget ==
    /\ searchTerm = <<>>
    /\ results = <<>>
    /\ isSearching = FALSE
    /\ error = ""
    /\ showDropdown = FALSE
    /\ selectedUser = NoUser

\* enableForwarding is false: no UserSearch is rendered yet.
NoWidgetYet ==
    /\ mounted = FALSE
    /\ InitialWidget
    /\ debouncedSearchTerm = <<>>
    /\ delay = DelayTicks
    /\ timers = {}
    /\ inflight = <<>>
    /\ sinceChange = 0
    /\ pubCount = 0
    /\ burst = 0
    /\ afterSelect = FALSE

Init ==
    /\ NoWidgetYet
    /\ InitialForm
    /\ ContainerUp

\* The forwarding checkbox is ticked: a fresh UserSearch is rendered.
Mount ==
    /\ ~mounted
    /\ mounted' = TRUE
    /\ searchTerm' = <<>>
    /\ debouncedSearchTerm' = <<>>
    /\ timers' = DebounceEffect({}, <<>>, delay)
    /\ sinceChange' = 0
    /\ pubCount' = 0
    /\ burst' = 0
    /\ selectedUser' = NoUser
    /\ Apply(SearchUsers(NoUser, <<>>,
                         [results |-> <<>>, isSearching |-> FALSE, error |-> "",
                          showDropdown |-> FALSE, inflight |-> <<>>]))
    /\ afterSelect' = FALSE
    /\ UNCHANGED outerVars
    /\ UNCHANGED delay

\* setEnableForwarding(false); setSelectedUser(null): the UserSearch, if
\* rendered, is unmounted, and its hook's cleanup runs.
WidgetTeardown ==
    /\ mounted' = FALSE
    /\ selectedUser' = NoUser
    /\ timers' = DebounceCleanup(timers)
    /\ inflight' = <<>>
    /\ afterSelect' = FALSE
    /\ UNCHANGED <<searchTerm, debouncedSearchTerm, delay, results, isSearching,
                   error, showDropdown, sinceChange, pubCount, burst>>

\* The checkbox is unticked: the selection is dropped and the widget torn down.
Unmount ==
    /\ mounted
    /\ WidgetTeardown
    /\ UNCHANGED outerVars

\* onChange={(e) => setSearchTerm(e.target.value)}
Type(v) ==
    /\ mounted
    /\ v # searchTerm
    /\ searchTerm' = v
    /\ HookRender(v)
    /\ afterSelect' = FALSE
    /\ UNCHANGED outerVars
    /\ UNCHANGED <<mounted, debouncedSearchTerm, delay, selectedUser, widgetVars>>

\* One tick passes; a timer that is due runs first.
Tick ==
    /\ \A t \in timers : t.left > 0
    /\ timers' = {[t EXCEPT !.left = @ - 1] : t \in timers}
    /\ sinceChange' = Min(sinceChange + 1, delay + 1)
    /\ afterSelect' = FALSE
    /\ UNCHANGED outerVars
    /\ UNCHANGED <<mounted, searchTerm, debouncedSearchTerm, delay, selectedUser,
                   pubCount, burst, widgetVars>>

\* The hook's timer callback of a rendered component.
Publish(t) ==
    /\ t \in timers
    /\ t.left = 0
    /\ timers' = timers \ {t}
    /\ pubCount' = Min(pubCount + 1, 2)
    /\ debouncedSearchTerm' = IF mounted THEN t.val ELSE debouncedSearchTerm
    /\ UNCHANGED <<searchTerm, delay, sinceChange, burst>>

\* Mutant: the search effect runs after every timer callback.
TimerFiresAlwaysSearches ==
    \E t \in timers :
        /\ Publish(t)
        /\ LET st == IF mounted THEN SearchUsers(selectedUser, t.val, W) ELSE W
           IN /\ Len(st.inflight) <= MaxInflight
              /\ Apply(st)
        /\ afterSelect' = FALSE
        /\ UNCHANGED outerVars
        /\ UNCHANGED <<mounted, selectedUser>>

\* The timer fires, and the search effect runs if the settled text changed.
TimerFires ==
    \E t \in timers :
        /\ Publish(t)
        /\ LET st == IF mounted /\ t.val # debouncedSearchTerm
                     THEN SearchUsers(selectedUser, t.val, W)
                     ELSE W
           IN /\ Len(st.inflight) <= MaxInflight
              /\ Apply(st)
        /\ afterSelect' = FALSE
        /\ UNCHANGED outerVars
        /\ UNCHANGED <<mounted, selectedUser>>

ResolveGuard(i, stage) ==
    /\ mounted
    /\ i \in DOMAIN inflight
    /\ inflight[i].stage = stage

Others == <<mounted, selectedUser, hookVars>>

\* await instance.acquireTokenSilent(...) returns
TokenAcquired(i) ==
    /\ ResolveGuard(i, "token")
    /\ inflight' = [inflight EXCEPT ![i].stage = "fetch"]
    /\ afterSelect' = FALSE
    /\ UNCHANGED outerVars
    /\ UNCHANGED <<results, isSearching, error, showDropdown, Others>>

\* Mutant: the catch branch calls searchUsers again.
TokenFailsAndRetries(i, err) ==
    /\ ResolveGuard(i, "token")
    /\ Apply(LookupFailed([W EXCEPT !.inflight =
                 Append(RemoveAt(@, i), [q |-> inflight[i].q, stage |-> "token"])], err))
    /\ afterSelect' = FALSE
    /\ UNCHANGED outerVars
    /\ UNCHANGED Others

\* await instance.acquireTokenSilent(...) throws
TokenFails(i, err) ==
    /\ ResolveGuard(i, "token")
    /\ Apply(LookupFailed([W EXCEPT !.inflight = RemoveAt(@, i)], err))
    /\ afterSelect' = FALSE
    /\ UNCHANGED outerVars
    /\ UNCHANGED Others

\* Mutant: the catch also reports the failure through the form's error state.
FetchFailsReportsToForm(i, err) ==
    /\ ResolveGuard(i, "fetch")
    /\ Apply(LookupFailed([W EXCEPT !.inflight = RemoveAt(@, i)], err))
    /\ afterSelect' = FALSE
    /\ submitStatus' = "error"
    /\ errorMessage' = GenericError
    /\ UNCHANGED <<fieldVars, isSubmitting, sub, calls, containerVars>>
    /\ UNCHANGED Others

\* fetch throws, the response is not ok, or its body is no JSON
FetchFails(i, err) ==
    /\ ResolveGuard(i, "fetch")
    /\ Apply(LookupFailed([W EXCEPT !.inflight = RemoveAt(@, i)], err))
    /\ afterSelect' = FALSE
    /\ UNCHANGED outerVars
    /\ UNCHANGED Others

\* the response is ok and its body parsed
FetchSucceeds(i, data) ==
    /\ ResolveGuard(i, "fetch")
    /\ Apply(LookupSucceeded([W EXCEPT !.inflight = RemoveAt(@, i)], data))
    /\ afterSelect' = FALSE
    /\ UNCHANGED outerVars
    /\ UNCHANGED Others

\* onClick={() => handleUserClick(user)} on a row of the dropdown
HandleUserClick(user) ==
    /\ mounted
    /\ showDropdown
    /\ user \in Range(results)
    /\ searchTerm' = user.displayName
    /\ HookRender(user.displayName)
    /\ selectedUser' = user
    /\ Apply(SearchUsers(user, debouncedSearchTerm,
                         [W EXCEPT !.results = <<>>, !.showDropdown = FALSE]))
    /\ afterSelect' = TRUE
    /\ UNCHANGED outerVars
    /\ UNCHANGED <<mounted, debouncedSearchTerm, delay>>

\* onClick={handleClear} on either clear button
HandleClear ==
    /\ mounted
    /\ \/ searchTerm # <<>>
       \/ selectedUser # NoUser /\ ~showDropdown
    /\ searchTerm' = <<>>
    /\ HookRender(<<>>)
    /\ selectedUser' = NoUser
    /\ LET st1 == [W EXCEPT !.results = <<>>, !.showDropdown = FALSE]
           st == IF selectedUser # NoUser
                 THEN SearchUsers(NoUser, debouncedSearchTerm, st1)
                 ELSE st1
       IN /\ Len(st.inflight) <= MaxInflight
          /\ Apply(st)
    /\ afterSelect' = FALSE
    /\ UNCHANGED outerVars
    /\ UNCHANGED <<mounted, debouncedSearchTerm, delay>>

\* onFocus={() => results.length > 0 && setShowDropdown(true)}
Focus ==
    /\ mounted
    /\ Len(results) > 0
    /\ showDropdown' = TRUE
    /\ afterSelect' = FALSE
    /\ UNCHANGED outerVars
    /\ UNCHANGED <<results, isSearching, error, inflight, Others>>

Next ==
    \/ Mount
    \/ Unmount
    \/ \E v \in Texts : Type(v)
    \/ Tick
    \/ TimerFires
    \/ \E i \in 1..MaxInflight : TokenAcquired(i)
    \/ \E i \in 1..MaxInflight, err \in AuthErrors : TokenFails(i, err)
    \/ \E i \in 1..MaxInflight, err \in FetchErrors : FetchFails(i, err)
    \/ \E i \in 1..MaxInflight, data \in Responses : FetchSucceeds(i, data)
    \/ \E user \in Users : HandleUserClick(user)
    \/ HandleClear
    \/ Focus

Spec == Init /\ [][Next]_vars

\* The widget against a directory that need not honour $top.
NextDirectory ==
    \/ Next
    \/ \E i \in 1..MaxInflight : FetchSucceeds(i, Overfull)

SpecDirectory == Init /\ [][NextDirectory]_vars

\* ------------------------------------------------------- OofForm's events
\* An event of the form that leaves the UserSearch as it is.
WidgetUntouched ==
    /\ afterSelect' = FALSE
    /\ UNCHANGED <<mounted, selectedUser, hookVars, widgetVars, containerVars>>

\* An edit of a field: the history of calls is kept for the submission that
\* is awaiting, and dropped otherwise. The times and the two texts are edited
\* between submissions only: handleSubmit reads them from its closure, so an
\* edit while it awaits commutes with its steps; the checkboxes and the
\* selection do change under a submission.
FieldEdited ==
    /\ calls' = IF isSubmitting THEN calls ELSE <<>>
    /\ WidgetUntouched

\* onChange={(e) => setStartTime(e.target.value)}
SetStartTime(t) ==
    /\ ~isSubmitting
    /\ t # startTime
    /\ startTime' = t
    /\ UNCHANGED <<endTime, internalMessage, externalMessage, blockCalendar,
                   declineNewInvites, declineMeetings, uiVars, sub>>
    /\ FieldEdited

\* onChange={(e) => setEndTime(e.target.value)}
SetEndTime(t) ==
    /\ ~isSubmitting
    /\ t # endTime
    /\ endTime' = t
    /\ UNCHANGED <<startTime, internalMessage, externalMessage, blockCalendar,
                   declineNewInvites, declineMeetings, uiVars, sub>>
    /\ FieldEdited

\* onChange={(e) => setInternalMessage(e.target.value)}
SetInternalMessage(m) ==
    /\ ~isSubmitting
    /\ m # internalMessage
    /\ internalMessage' = m
    /\ UNCHANGED <<startTime, endTime, externalMessage, blockCalendar,
                   declineNewInvites, declineMeetings, uiVars, sub>>
    /\ FieldEdited

\* onChange={(e) => setExternalMessage(e.target.value)}
SetExternalMessage(m) ==
    /\ ~isSubmitting
    /\ m # externalMessage
    /\ externalMessage' = m
    /\ UNCHANGED <<startTime, endTime, internalMessage, blockCalendar,
                   declineNewInvites, declineMeetings, uiVars, sub>>
    /\ FieldEdited

\* onChange={(e) => setBlockCalendar(e.target.checked)}
ToggleBlockCalendar ==
    /\ blockCalendar' = ~blockCalendar
    /\ UNCHANGED <<startTime, endTime, internalMessage, externalMessage,
                   declineNewInvites, declineMeetings, uiVars, sub>>
    /\ FieldEdited

\* onChange={(e) => setDeclineNewInvites(e.target.checked)}
ToggleDeclineNewInvites ==
    /\ declineNewInvites' = ~declineNewInvites
    /\ UNCHANGED <<startTime, endTime, internalMessage, externalMessage,
                   blockCalendar, declineMeetings, uiVars, sub>>
    /\ FieldEdited

\* onChange={(e) => setDeclineMeetings(e.target.checked)}
ToggleDeclineMeetings ==
    /\ declineMeetings' = ~declineMeetings
    /\ UNCHANGED <<startTime, endTime, internalMessage, externalMessage,
                   blockCalendar, declineNewInvites, uiVars, sub>>
    /\ FieldEdited

\* onUserSelect={setSelectedUser}: the UserSearch reports a selection (or
\* null); how it got there is the widget's own specification.
OnUserSelect(user) ==
    /\ mounted
    /\ user # selectedUser
    /\ selectedUser' = user
    /\ afterSelect' = FALSE
    /\ UNCHANGED <<mounted, hookVars, widgetVars, outerVars>>

\* Mutant: handleSubmit sets isSubmitting and asks for the token before it
\* looks at the fields.
HandleSubmitUnvalidated ==
    /\ ~isSubmitting
    /\ submitStatus' = "idle"
    /\ errorMessage' = ""
    /\ isSubmitting' = TRUE
    /\ sub' = Submission(F)
    /\ calls' = <<Steps[1]>>
    /\ UNCHANGED fieldVars
    /\ WidgetUntouched

\* handleSubmit up to its first await; the submit button is disabled while
\* a submission is awaiting.
HandleSubmit ==
    /\ ~isSubmitting
    /\ IF ValidateForm(F) # ""
       THEN /\ submitStatus' = "error"
            /\ errorMessage' = ValidateForm(F)
            /\ calls' = <<>>
            /\ UNCHANGED <<isSubmitting, sub>>
       ELSE /\ submitStatus' = "idle"
            /\ errorMessage' = ""
            /\ isSubmitting' = TRUE
            /\ sub' = Submission(F)
            /\ calls' = <<Steps[1]>>
    /\ UNCHANGED fieldVars
    /\ WidgetUntouched

\* The awaited call has returned and left s: handleSubmit issues its next
\* call, or reaches setSubmitStatus('success') and the finally.
Continue(s) ==
    /\ IF NextStep(s) = "done"
       THEN /\ submitStatus' = "success"
            /\ isSubmitting' = FALSE
            /\ sub' = NoSubmission
            /\ calls' = calls
       ELSE /\ sub' = Issue(s, NextStep(s))
            /\ calls' = Append(calls, NextStep(s))
            /\ UNCHANGED <<isSubmitting, submitStatus>>
    /\ UNCHANGED <<errorMessage, fieldVars>>
    /\ WidgetUntouched

\* The awaited call resolves: the token, the patch, a post, an ok webhook.
StepSucceeds ==
    /\ sub.pc \notin {"none", "getCalendarView", "postForwardingRule"}
    /\ Continue([sub EXCEPT !.events = IF sub.pc = "postDecline" THEN Tail(@) ELSE @])

\* const events = await client.api('/me/calendar/calendarView')...get()
CalendarViewReturns(evs) ==
    /\ sub.pc = "getCalendarView"
    /\ Continue([sub EXCEPT !.events = Declinable(evs)])

\* ruleId = ruleResponse.id
ForwardingRuleCreated(id) ==
    /\ sub.pc = "postForwardingRule"
    /\ Continue([sub EXCEPT !.ruleId = id])

\* Mutant: each call has its own catch, and handleSubmit goes on.
StepFailsAndContinues(err) ==
    /\ sub.pc # "none"
    /\ err \in ThrownBy(sub.pc)
    /\ submitStatus' = "error"
    /\ errorMessage' = CatchMessage(err)
    /\ IF NextStep(sub) = "done"
       THEN /\ isSubmitting' = FALSE
            /\ sub' = NoSubmission
            /\ calls' = calls
       ELSE /\ sub' = Issue(sub, NextStep(sub))
            /\ calls' = Append(calls, NextStep(sub))
            /\ UNCHANGED isSubmitting
    /\ UNCHANGED fieldVars
    /\ WidgetUntouched

\* The awaited call throws (or the webhook answers not ok): catch, finally.
StepFails(err) ==
    /\ sub.pc # "none"
    /\ err \in ThrownBy(sub.pc)
    /\ submitStatus' = "error"
    /\ errorMessage' = CatchMessage(err)
    /\ isSubmitting' = FALSE
    /\ sub' = NoSubmission
    /\ UNCHANGED <<calls, fieldVars>>
    /\ WidgetUntouched

\* resetForm, behind the button that shows on success
ResetForm ==
    /\ submitStatus = "success"
    /\ startTime' = 0
    /\ endTime' = 0
    /\ internalMessage' = <<>>
    /\ externalMessage' = <<>>
    /\ submitStatus' = "idle"
    /\ errorMessage' = ""
    /\ WidgetTeardown
    /\ UNCHANGED <<blockCalendar, declineNewInvites, declineMeetings,
                   isSubmitting, sub, calls, containerVars>>

AllThrown == UNION {ThrownBy(Steps[k]) : k \in DOMAIN Steps}

\* The form with the UserSearch seen through its onUserSelect callback only.
NextForm ==
    \/ \E t \in Times : SetStartTime(t)
    \/ \E t \in Times : SetEndTime(t)
    \/ \E m \in Messages : SetInternalMessage(m)
    \/ \E m \in Messages : SetExternalMessage(m)
    \/ ToggleBlockCalendar
    \/ ToggleDeclineNewInvites
    \/ ToggleDeclineMeetings
    \/ Mount
    \/ Unmount
    \/ \E user \in Users \cup {NoUser} : OnUserSelect(user)
    \/ HandleSubmit
    \/ StepSucceeds
    \/ \E evs \in CalendarViews : CalendarViewReturns(evs)
    \/ \E id \in RuleIds : ForwardingRuleCreated(id)
    \/ \E err \in AllThrown : StepFails(err)
    \/ ResetForm

SpecForm == Init /\ [][NextForm]_vars

\* ------------------------------------- the form and its UserSearch together
\* The whole page, from a form whose times and texts are either still empty
\* or already filled in validly, with the three calendar options left
\* unticked and the search text either empty or 'jo'.
FilledFields ==
    [InitialFields EXCEPT !.startTime = 1, !.endTime = 2,
                          !.internalMessage = <<"a">>, !.externalMessage = <<"a">>]

AppTexts == {<<>>, <<"j", "o">>}

InitApp ==
    /\ NoWidgetYet
    /\ \E f \in {InitialFields, FilledFields} :
           /\ startTime = f.startTime
           /\ endTime = f.endTime
           /\ internalMessage = f.internalMessage
           /\ externalMessage = f.externalMessage
    /\ blockCalendar = FALSE
    /\ declineNewInvites = FALSE
    /\ declineMeetings = FALSE
    /\ isSubmitting = FALSE
    /\ submitStatus = "idle"
    /\ errorMessage = ""
    /\ sub = NoSubmission
    /\ calls = <<>>
    /\ ContainerUp

NextApp ==
    \/ Mount
    \/ Unmount
    \/ \E v \in AppTexts : Type(v)
    \/ Tick
    \/ TimerFires
    \/ \E i \in 1..MaxInflight : TokenAcquired(i)
    \/ \E i \in 1..MaxInflight, err \in AuthErrors : TokenFails(i, err)
    \/ \E i \in 1..MaxInflight, err \in FetchErrors : FetchFails(i, err)
    \/ \E i \in 1..MaxInflight, data \in Responses : FetchSucceeds(i, data)
    \/ \E user \in Users : HandleUserClick(user)
    \/ HandleClear
    \/ Focus
    \/ HandleSubmit
    \/ StepSucceeds
    \/ \E id \in RuleIds : ForwardingRuleCreated(id)
    \/ \E err \in AllThrown : StepFails(err)
    \/ ResetForm

SpecApp == InitApp /\ [][NextApp]_vars

\* ------------------------------------------------------ the container
\* The image: COPY --from=build /app/dist, then cp runtime-env.js
\* runtime-env.js.template; an image without that cp has no template.
InitEntrypoint ==
    /\ NoWidgetYet
    /\ InitialForm
    /\ built \in Templates
    /\ template \in {File(built), NoFile}
    /\ target = File(built)
    /\ env \in Envs
    /\ \A n \in ShellFormat : env[n] = ""
    /\ starts = 0

\* The container starts with environment e: /entrypoint.sh runs on the files
\* the last start left.
Start(e) ==
    /\ LET fs == Entrypoint([template |-> template, target |-> target], e)
       IN /\ template' = fs.template
          /\ target' = fs.target
    /\ env' = e
    /\ starts' = Min(starts + 1, MaxStarts)
    /\ UNCHANGED <<built, mounted, searchTerm, debouncedSearchTerm, delay, timers,
                   results, isSearching, error, showDropdown, selectedUser,
                   inflight, sinceChange, pubCount, burst, afterSelect, formVars>>

NextEntrypoint == \E e \in Envs : Start(e)

SpecEntrypoint == InitEntrypoint /\ [][NextEntrypoint]_vars

\* ------------------------------------------------ the hook on its own
\* useDebounce(value, delay) in any host: any initial value, any delay.
InitDebounce ==
    \E v \in Texts, d \in 0..MaxDelay :
        /\ mounted = TRUE
        /\ searchTerm = v
        /\ debouncedSearchTerm = v
        /\ delay = d
        /\ timers = DebounceEffect({}, v, d)
        /\ results = <<>>
        /\ isSearching = FALSE
        /\ error = ""
        /\ showDropdown = FALSE
        /\ selectedUser = NoUser
        /\ inflight = <<>>
        /\ sinceChange = 0
        /\ pubCount = 0
        /\ burst = 0
        /\ afterSelect = FALSE
        /\ InitialForm
        /\ ContainerUp

\* The timer callback in a host that does nothing else with the value.
HookFires ==
    \E t \in timers :
        /\ Publish(t)
        /\ UNCHANGED <<mounted, selectedUser, widgetVars, afterSelect, outerVars>>

NextDebounce ==
    \/ \E v \in Texts : Type(v)
    \/ Tick
    \/ HookFires
    \/ Unmount

SpecDebounce == InitDebounce /\ [][NextDebounce]_vars

\* The hook in a browser whose clock goes on and whose event loop runs a
\* timer callback that is due.
SpecDebounceFair ==
    /\ InitDebounce
    /\ [][NextDebounce]_vars
    /\ WF_vars(Tick)
    /\ WF_vars(HookFires)

\* ------------------------------------------------------------- properties
\* A lookup was dispatched in this step.
Dispatched == Len(inflight') > Len(inflight)

\* Lookup i got its final response in this step.
Resolved(i) == mounted /\ mounted' /\ inflight' = RemoveAt(inflight, i)

\* C1: when the lookup for the current settled text B has already been
\* answered and a lookup dispatched earlier for another text A is answered
\* after it (no selection held, B of length >= 2), the late answer leaves
\* the candidates, the searching status and the error as B left them.
C1_OutOfOrderResponse ==
    [][\A i \in DOMAIN inflight :
          ( /\ Resolved(i)
            /\ selectedUser = NoUser
            /\ Len(debouncedSearchTerm) >= MinQueryLen
            /\ inflight[i].q # debouncedSearchTerm
            /\ \A j \in DOMAIN inflight : inflight[j].q # debouncedSearchTerm )
          => /\ results' = results
             /\ isSearching' = isSearching
             /\ error' = error]_vars

\* C2: while a record is selected no lookup is in flight and the candidate
\* list is empty.
C2_SelectionInvariant ==
    selectedUser # NoUser => inflight = <<>> /\ results = <<>>

\* C3: handleClear dispatches no lookup, whatever the settled text is.
C3_ClearDispatchesNothing ==
    [][HandleClear => ~Dispatched]_vars

\* C4: while the settled text is shorter than 2 (and the effect has run on
\* it: no selection is held), the candidate list is empty, the status is
\* not searching and no error is shown.
C4_ShortTextIsIdle ==
    (mounted /\ selectedUser = NoUser /\ Len(debouncedSearchTerm) < MinQueryLen)
        => results = <<>> /\ ~isSearching /\ error = ""

\* C5: every lookup awaiting its credential or its directory response has a
\* query of length >= 2, and a lookup, when dispatched, starts with the
\* credential acquisition and carries the settled text of that moment.
C5_MinLengthGate ==
    [][/\ \A i \in DOMAIN inflight' : Len(inflight'[i].q) >= MinQueryLen
       /\ Dispatched =>
            /\ inflight' = Append(inflight, [q |-> debouncedSearchTerm', stage |-> "token"])
            /\ selectedUser' = NoUser]_vars

C5_Witness ==
    /\ mounted
    /\ Len(inflight) = 2
    /\ inflight[1].q # inflight[2].q
    /\ inflight[1].stage = "fetch"

\* C6: the timer callback runs only when delay ticks have passed since the
\* last change of the input, it publishes the input's current value, and it
\* runs exactly once per change that is left standing for delay ticks.
C6_DebounceBurst ==
    [][/\ pubCount' = pubCount + 1 =>
            /\ sinceChange = delay
            /\ pubCount = 0
            /\ debouncedSearchTerm' = searchTerm
       /\ (mounted' /\ sinceChange' > delay) => pubCount' = 1
       /\ (mounted' /\ sinceChange' < delay) => pubCount' = 0]_vars

C6_Witness ==
    /\ mounted
    /\ burst = 2
    /\ pubCount = 1
    /\ delay = MaxDelay
    /\ debouncedSearchTerm = searchTerm
    /\ sinceChange > delay

\* C7: tearing the consumer down cancels the pending timer; after teardown
\* no timer callback runs and the settled value does not change.
C7_DebounceTeardown ==
    [][/\ ~mounted' => timers' = {}
       /\ ~mounted => /\ pubCount' = pubCount
                      /\ debouncedSearchTerm' = debouncedSearchTerm]_vars

C7_Witness ==
    /\ delay = MaxDelay
    /\ ~mounted
    /\ pubCount = 0
    /\ debouncedSearchTerm # searchTerm
    /\ sinceChange > delay

\* C8: handleUserClick empties the candidate list and sets the input to the
\* record's display name, and no step that ends with a selection held
\* dispatches a lookup.
C8_SelectionCommit ==
    [][/\ afterSelect' =>
            /\ results' = <<>>
            /\ selectedUser' \in Users
            /\ searchTerm' = selectedUser'.displayName
       /\ selectedUser' # NoUser => ~Dispatched]_vars

C8_Witness ==
    /\ selectedUser # NoUser
    /\ searchTerm # selectedUser.displayName
    /\ debouncedSearchTerm = searchTerm
    /\ Len(debouncedSearchTerm) >= MinQueryLen
    /\ pubCount = 1

\* C9: handleUserClick followed by handleClear leaves the widget in its
\* initial state.
C9_SelectClearRoundTrip ==
    [][(afterSelect /\ HandleClear) => InitialWidget']_vars

\* C10: while the status is searching, a lookup dispatched for the current
\* settled text is in flight.
C10_SearchingHasLookup ==
    (mounted /\ isSearching)
        => \E i \in DOMAIN inflight : inflight[i].q = debouncedSearchTerm

\* A lookup failed in this step, whatever the cause.
LookupFails(i) ==
    \/ \E err \in AuthErrors : TokenFails(i, err)
    \/ \E err \in FetchErrors : FetchFails(i, err)

\* C11: when a lookup fails (credential, network, response status, body),
\* the step leaves no candidates, a status that is not searching and the
\* one generic, non-empty message, whatever the caught error says.
C11_LookupFailureOutcome ==
    [][Len(inflight') < Len(inflight) => \A i \in DOMAIN inflight :
          LookupFails(i) =>
              /\ results' = <<>>
              /\ ~isSearching'
              /\ error' = GenericError
              /\ error' # ""
              /\ error' \notin AuthErrors \cup FetchErrors]_vars

C11_Witness ==
    /\ mounted
    /\ selectedUser = NoUser
    /\ error = GenericError
    /\ results = <<>>
    /\ ~isSearching
    /\ inflight = <<>>
    /\ Len(debouncedSearchTerm) >= MinQueryLen
    /\ debouncedSearchTerm = searchTerm

\* The debounce timer of a rendered widget without a selection runs.
QuietPeriodEnds ==
    /\ mounted
    /\ mounted'
    /\ selectedUser = NoUser
    /\ \E t \in timers : t.left = 0 /\ timers' = timers \ {t}

NewLookup(term) == inflight' = Append(inflight, [q |-> term, stage |-> "token"])

\* C12 (as the code has it): with no selection, a keystroke dispatches
\* nothing; the timer runs only once the input has been quiet for the delay,
\* and then exactly one lookup for the final text is dispatched if that text
\* has at least two characters and differs from the text settled before;
\* otherwise none is.
C12_BurstThenQuiet ==
    [][/\ (\E v \in Texts : Type(v)) => inflight' = inflight
       /\ QuietPeriodEnds =>
              /\ sinceChange >= delay
              /\ debouncedSearchTerm' = searchTerm
              /\ IF Len(searchTerm) >= MinQueryLen /\ searchTerm # debouncedSearchTerm
                 THEN NewLookup(searchTerm)
                 ELSE inflight' = inflight]_vars

\* C12 (as claimed): after the quiet period exactly one lookup for the final
\* text is dispatched whenever that text has at least two characters.
C12_AsClaimed ==
    [][/\ (\E v \in Texts : Type(v)) => inflight' = inflight
       /\ QuietPeriodEnds =>
              /\ sinceChange >= delay
              /\ IF Len(searchTerm) >= MinQueryLen
                 THEN NewLookup(searchTerm)
                 ELSE inflight' = inflight]_vars

\* 'j' then 'jo' typed in one burst, the timer ran once, one lookup for 'jo'.
C12_Witness ==
    /\ mounted
    /\ selectedUser = NoUser
    /\ burst = 2
    /\ pubCount = 1
    /\ searchTerm = <<"j", "o">>
    /\ debouncedSearchTerm = searchTerm
    /\ inflight = <<[q |-> <<"j", "o">>, stage |-> "token"]>>
    /\ isSearching

\* C13: a successful lookup replaces the candidate list by exactly the
\* returned sequence, in the returned order; an empty answer empties a list
\* that an earlier lookup had filled.
C13_WholesaleReplacement ==
    [][Len(inflight') < Len(inflight) =>
          \A i \in DOMAIN inflight : \A data \in Responses :
              FetchSucceeds(i, data) => results' = data /\ showDropdown']_vars

\* The answer <<user 2, user 1>> is shown as returned.
C13_Witness ==
    /\ mounted
    /\ selectedUser = NoUser
    /\ Len(results) = 2
    /\ results[1].id = 2
    /\ results[2].id = 1
    /\ showDropdown
    /\ ~isSearching
    /\ inflight = <<>>

\* C14: no automatic retry. A failing lookup leaves with nothing dispatched
\* in its place, and a lookup is dispatched only in a step that changes the
\* settled text or the selection: with neither changing, the lookups in
\* flight only get fewer.
C14_NoAutomaticRetry ==
    [][/\ Dispatched =>
              \/ debouncedSearchTerm' # debouncedSearchTerm
              \/ selectedUser' # selectedUser
       /\ \A i \in DOMAIN inflight :
              LookupFails(i) => inflight' = RemoveAt(inflight, i)]_vars

\* A lookup failed, time went by, and nothing is in flight.
C14_Witness ==
    /\ mounted
    /\ selectedUser = NoUser
    /\ error = GenericError
    /\ inflight = <<>>
    /\ pubCount = 1
    /\ sinceChange > delay
    /\ Len(debouncedSearchTerm) >= MinQueryLen

\* C15: the settled value is the input's value at first use; afterwards it
\* changes only to the value the input holds at that moment and has held,
\* unchanged, for at least the delay.
C15_DebounceSoundness ==
    /\ debouncedSearchTerm = searchTerm
    /\ [][debouncedSearchTerm' # debouncedSearchTerm =>
              /\ debouncedSearchTerm' = searchTerm
              /\ searchTerm' = searchTerm
              /\ sinceChange >= delay]_vars

\* One change of the input, left standing, was published when the delay ran out.
C15_Witness ==
    /\ mounted
    /\ delay = MaxDelay
    /\ burst = 1
    /\ pubCount = 1
    /\ sinceChange = delay
    /\ debouncedSearchTerm = searchTerm

\* C16: validation is local. A submit whose fields fail validateForm ends in
\* status error with a non-empty message, leaves isSubmitting unset and
\* issues no call; and whatever call is issued belongs to a submission whose
\* fields passed validation.
C16_ValidationIsLocal ==
    [][/\ (HandleSubmit /\ ValidateForm(F) # "") =>
              /\ submitStatus' = "error"
              /\ errorMessage' # ""
              /\ ~isSubmitting'
              /\ sub' = NoSubmission
              /\ calls' = <<>>
       /\ Len(calls') > Len(calls) =>
              /\ isSubmitting'
              /\ ValidateForm(sub'.f) = ""]_vars

\* Valid times and internal text, a blank external text: the submit failed.
C16_Witness ==
    /\ startTime = 1
    /\ endTime = 2
    /\ Trim(internalMessage) # <<>>
    /\ externalMessage = <<" ">>
    /\ submitStatus = "error"
    /\ errorMessage = "Please provide an external message."
    /\ ~isSubmitting
    /\ calls = <<>>

\* C17: abort without rollback. The step in which an awaited call of a
\* submission fails ends the submission with status error and issues no
\* call, neither a later step nor one undoing an earlier step; and a call is
\* only ever issued by a submission that is still awaiting, or as the first
\* call of a new submit.
C17_AbortWithoutRollback ==
    [][/\ \A err \in AllThrown :
              StepFails(err) =>
                  /\ submitStatus' = "error"
                  /\ ~isSubmitting'
                  /\ sub' = NoSubmission
                  /\ calls' = calls
       /\ calls' # calls =>
              \/ isSubmitting /\ submitStatus = "idle" /\ calls' = Append(calls, sub'.pc)
              \/ ~isSubmitting /\ calls' \in {<<>>, <<Steps[1]>>}]_vars

\* The settings were patched, then the calendar block failed: nothing after
\* it was issued, and the patch stands.
C17_Witness ==
    /\ submitStatus = "error"
    /\ errorMessage = "Failed to set automatic replies: Access is denied."
    /\ ~isSubmitting
    /\ sub = NoSubmission
    /\ calls = <<"acquireTokenSilent", "patchMailboxSettings", "postBlockEvent">>

\* C18: whichever awaited call of a submission fails, and whatever the
\* error it throws says, the message shown is the one generic text.
C18_GenericSubmissionError ==
    [][\A err \in AllThrown :
          StepFails(err) => errorMessage' = GenericSubmitError]_vars

\* C19: search errors stay local. A step in which a lookup is dispatched,
\* gets its token or ends, in success or in failure, changes nothing of the
\* form: not its fields, not isSubmitting, submitStatus or errorMessage, not
\* the submission that is awaiting. (The one dispatch that comes with a
\* change of the selection is handleClear's, whose purpose that change is.)
C19_SearchErrorsStayLocal ==
    [][(inflight' # inflight /\ mounted') =>
          /\ fieldVars' = fieldVars
          /\ uiVars' = uiVars
          /\ sub' = sub
          /\ calls' = calls
          /\ mounted' = mounted
          /\ selectedUser' = selectedUser \/ HandleClear]_vars

\* A lookup has failed under a submission that is awaiting its patch.
C19_Witness ==
    /\ mounted
    /\ error = GenericError
    /\ inflight = <<>>
    /\ isSubmitting
    /\ submitStatus = "idle"
    /\ errorMessage = ""
    /\ sub.pc = "patchMailboxSettings"

\* The lookups whose directory request has been sent.
Fetching(s) == {i \in DOMAIN s : s[i].stage = "fetch"}

\* C20: credential before call. A lookup starts by asking for its token; a
\* lookup's directory request is sent only in the step in which that
\* lookup's token arrives, and a lookup whose token fails ends without one.
\* Likewise the first call of a submission is the token's, every other call
\* is issued by a submission whose earlier calls have returned, and a
\* submission whose token fails has issued nothing else.
C20_CredentialBeforeCall ==
    [][/\ Dispatched => inflight'[Len(inflight')].stage = "token"
       /\ Cardinality(Fetching(inflight')) > Cardinality(Fetching(inflight)) =>
              \E i \in DOMAIN inflight :
                  /\ inflight[i].stage = "token"
                  /\ inflight' = [inflight EXCEPT ![i].stage = "fetch"]
       /\ \A i \in DOMAIN inflight : \A err \in AuthErrors :
              TokenFails(i, err) => inflight' = RemoveAt(inflight, i)
       /\ Len(calls') > Len(calls) =>
              IF calls = <<>>
              THEN calls' = <<"acquireTokenSilent">>
              ELSE calls[1] = "acquireTokenSilent" /\ isSubmitting
                   /\ calls'[Len(calls')] # "acquireTokenSilent"
       /\ \A err \in AllThrown :
              (sub.pc = "acquireTokenSilent" /\ StepFails(err)) =>
                  calls' = <<"acquireTokenSilent">> /\ sub' = NoSubmission]_vars

\* A lookup's request is out and a submission awaits its patch: each has
\* its token.
C20_Witness ==
    /\ inflight = <<[q |-> <<"j", "o">>, stage |-> "fetch"]>>
    /\ sub.pc = "patchMailboxSettings"
    /\ calls = <<"acquireTokenSilent", "patchMailboxSettings">>

\* C21: runtime config regeneration. The template is never written; once a
\* container has started where the template exists, runtime-env.js is the
\* template as built with the three variables' values of the latest start,
\* whatever earlier starts were given.
C21_ConfigRegeneration ==
    /\ template \in {NoFile, File(built)}
    /\ (template.exists /\ starts > 0) => target = File(Envsubst(built, env))

\* A second start, with a client id other than "a", of an image whose
\* template refers to the client id.
C21_Witness ==
    /\ starts = MaxStarts
    /\ template.exists
    /\ \E k \in DOMAIN built : built[k] = [var |-> TRUE, s |-> "VITE_AZURE_CLIENT_ID"]
    /\ env["VITE_AZURE_CLIENT_ID"] = "b"
    /\ [var |-> FALSE, s |-> "b"] \in Range(target.text)

\* C22: restart without look-back. Every change of the input, also one back
\* to the settled value, leaves exactly one timer, for the new value and a
\* full delay; and a timer callback runs only when the input has stood for
\* that delay since its latest change.
C22_RestartWithoutLookBack ==
    [][/\ (mounted' /\ searchTerm' # searchTerm) =>
              /\ timers' = {[val |-> searchTerm', left |-> delay]}
              /\ pubCount' = 0
       /\ pubCount' > pubCount =>
              /\ sinceChange = delay
              /\ timers = {[val |-> searchTerm, left |-> 0]}]_vars

\* The input went away from the settled value and has just come back to it:
\* a timer with the full delay is pending.
C22_Witness ==
    /\ mounted
    /\ delay = MaxDelay
    /\ burst = 2
    /\ sinceChange = 0
    /\ pubCount = 0
    /\ searchTerm = debouncedSearchTerm
    /\ timers = {[val |-> searchTerm, left |-> delay]}

\* C23: the candidate list never holds more than the maximum of 10 records,
\* whatever number of records the directory returns.
C23_BoundedCandidates == Len(results) <= Top

\* The calls a submission of the fields f has to issue, the declines aside.
Wanted(f) ==
    <<"acquireTokenSilent", "patchMailboxSettings">>
    \o (IF f.blockCalendar THEN <<"postBlockEvent">> ELSE <<>>)
    \o (IF f.declineNewInvites THEN <<"postDeclineRule">> ELSE <<>>)
    \o (IF f.declineMeetings THEN <<"getCalendarView">> ELSE <<>>)
    \o (IF f.enableForwarding /\ f.selectedUser # NoUser
        THEN <<"postForwardingRule">> ELSE <<>>)
    \o <<"postWebhook">>

\* The calls cs issued so far by the awaiting submission s follow the
\* pipeline: the call awaited is the last one issued, the calls are a prefix
\* of the wanted ones with the declines right after the calendar query, and
\* no event is left to decline once a later call is issued.
InPipelineOrder(s, cs) ==
    LET plain == SelectSeq(cs, LAMBDA c : c # "postDecline")
    IN /\ cs # <<>>
       /\ s.pc = cs[Len(cs)]
       /\ Len(plain) <= Len(Wanted(s.f))
       /\ plain = SubSeq(Wanted(s.f), 1, Len(plain))
       /\ \A k \in DOMAIN cs :
              cs[k] = "postDecline" =>
                  k > 1 /\ cs[k - 1] \in {"getCalendarView", "postDecline"}
       /\ s.pc \in {"postForwardingRule", "postWebhook"} => s.events = <<>>

\* C24: a submission issues its calls in the fixed order credential, settings
\* patch, calendar block, auto-decline rule, calendar query and declines,
\* forwarding rule, webhook, each of the optional ones exactly when it is
\* enabled; a call is issued only when the one before has succeeded, so the
\* webhook is issued once and after all of them; and the status becomes
\* success exactly when the webhook call returns success.
C24_PipelineOrder ==
    [][/\ sub'.pc # "none" => InPipelineOrder(sub', calls')
       /\ (calls # <<>> /\ Len(calls') > Len(calls)) =>
              /\ calls' = Append(calls, sub'.pc)
              /\ submitStatus' = "idle"
              /\ errorMessage' = ""
       /\ (submitStatus' = "success" /\ submitStatus # "success") <=>
              (sub.pc = "postWebhook" /\ StepSucceeds)]_vars

C24_Witness ==
    /\ submitStatus = "success"
    /\ Len(calls) = Len(Steps)
    /\ \A k \in DOMAIN Steps : calls[k] = Steps[k]

\* The submission s forwards: the test of the if around the forwarding rule.
Forwards(s) == s.f.enableForwarding /\ s.f.selectedUser # NoUser

RulePosts(cs) == {k \in DOMAIN cs : cs[k] = "postForwardingRule"}

\* C26: a submission posts a forwarding rule only when it has forwarding
\* enabled with a user selected, it posts at most one, and the rule posted is
\* disabled; a submission that gets as far as the webhook has created the
\* rule exactly when it has forwarding enabled with a user selected.
C26_ForwardingRule ==
    [][/\ Cardinality(RulePosts(calls')) <= 1
       /\ sub'.pc = "postForwardingRule" =>
              /\ Forwards(sub')
              /\ Len(sub'.forwardingRule) = 1
              /\ sub'.forwardingRule[1].isEnabled = FALSE
              /\ sub'.ruleId = 0
       /\ \A id \in RuleIds :
              ForwardingRuleCreated(id) =>
                  /\ Forwards(sub)
                  /\ sub.ruleId = 0
                  /\ sub'.ruleId = id
       /\ sub'.pc = "postWebhook" =>
              /\ (sub'.ruleId # 0) = Forwards(sub')
              /\ Cardinality(RulePosts(calls')) = (IF Forwards(sub') THEN 1 ELSE 0)]_vars

\* C26 as claimed: every submission, also one that is aborted, has created a
\* forwarding rule exactly when it has forwarding enabled with a user
\* selected.
C26_AsClaimed ==
    [][(isSubmitting /\ ~isSubmitting') =>
           ((sub.ruleId # 0) = Forwards(sub))]_vars

C26_Witness ==
    /\ sub.pc = "postWebhook"
    /\ sub.ruleId = 1
    /\ sub.forwardingRule =
           <<[isEnabled |-> FALSE, name |-> <<"j", "o">>,
              address |-> "jo@contoso.com"]>>

\* A text with a character that is not white space.
NonBlank(m) == \E k \in DOMAIN m : m[k] # " "

\* The checks of the form in their order, each with its message.
Checks ==
    <<[ok |-> startTime # 0 /\ endTime # 0,
       message |-> "Please select both start and end times."],
      [ok |-> startTime < endTime,
       message |-> "End time must be after start time."],
      [ok |-> NonBlank(internalMessage),
       message |-> "Please provide an internal message."],
      [ok |-> NonBlank(externalMessage),
       message |-> "Please provide an external message."],
      [ok |-> mounted => selectedUser # NoUser,
       message |-> "Please select a user to forward emails to."]>>

\* C27: a submission is accepted exactly when both times are there, the
\* start is strictly before the end, both messages have a character that is
\* not white space, and a user is selected if forwarding is enabled; a
\* rejected one shows the message of the first check that fails, in the
\* order times missing, time order, internal, external, forwarding user.
C27_ValidationPrecedence ==
    [][HandleSubmit =>
           LET failing == {k \in DOMAIN Checks : ~Checks[k].ok}
           IN IF failing = {}
              THEN isSubmitting' /\ submitStatus' = "idle" /\ errorMessage' = ""
              ELSE /\ ~isSubmitting'
                   /\ submitStatus' = "error"
                   /\ \E k \in failing :
                          /\ \A j \in failing : k <= j
                          /\ errorMessage' = Checks[k].message]_vars

C27_Witness ==
    /\ submitStatus = "error"
    /\ errorMessage = "End time must be after start time."
    /\ startTime = endTime /\ startTime # 0
    /\ internalMessage = <<" ">>
    /\ externalMessage = <<>>
    /\ mounted /\ selectedUser = NoUser
    /\ calls = <<>>

\* C28: after resetForm every piece of the form's state has its initial
\* value: the times and both messages empty, forwarding off, no user
\* selected, the three calendar checkboxes unchecked, the status idle and
\* the error message empty.
C28_ResetToInitial ==
    [][ResetForm =>
           /\ F' = InitialFields
           /\ submitStatus' = "idle"
           /\ errorMessage' = ""]_vars

\* C29: an error message and candidates are never there together: whenever
\* the error message is not empty, the candidate list is empty.
C29_ErrorExcludesCandidates == error # "" => results = <<>>

\* C30: as long as a lookup dispatched for the current settled text is
\* outstanding and no selection is held, the status is searching, also after
\* an older lookup has been answered.
C30_IndicatorCoversLookup ==
    ( /\ mounted
      /\ selectedUser = NoUser
      /\ \E i \in DOMAIN inflight : inflight[i].q = debouncedSearchTerm )
        => isSearching

\* C31: when the input stops changing at a value and the component stays
\* rendered, the settled value eventually is that value for good; and once
\* the settled value equals the input it stays equal to it for as long as
\* the input does not change.
C31_DebounceLiveness ==
    /\ \A v \in Texts :
           <>[](mounted /\ searchTerm = v) => <>[](debouncedSearchTerm = v)
    /\ [][(mounted' /\ debouncedSearchTerm = searchTerm /\ searchTerm' = searchTerm)
              => debouncedSearchTerm' = searchTerm']_vars

C31_Witness ==
    /\ mounted /\ delay = MaxDelay
    /\ burst = 2 /\ pubCount = 1
    /\ timers = {}
    /\ sinceChange = delay + 1
    /\ searchTerm # <<>>
    /\ debouncedSearchTerm = searchTerm

====
